---- MODULE Spec2Model ----
(***************************************************************************)
(* rdmeter: raw YUV 4:2:0 frame reading, the compute loop of main, and the *)
(* luma metrics PSNR, SSIM, 2x2 downsampling and MS-SSIM.                  *)
(*                                                                         *)
(* Two specifications share the variables:                                 *)
(*   SpecMain    the compute branch of main (src/main.cpp) on two streams  *)
(*   SpecMetric  one call of a metric function (src/metrics.cpp) on inputs *)
(*               drawn by its initial condition                            *)
(* Real-valued results are kept exact: a PSNR is the pair (sum of squared  *)
(* differences, pixel count), an SSIM is a fraction of two integers.       *)
(***************************************************************************)
EXTENDS Integers, Sequences, FiniteSets, TLC

VARIABLES
    pc,            \* position in main / in the metric call
    width, height, \* declared dimensions (main's options, a metric's arguments)
    max_frames,    \* main: -f option, -1 for all frames
    ref_stream, dist_stream,   \* main: the two std::ifstream
    ref_frame,     \* main: the local ref_frame of the loop body, NoFrame outside its scope
    ref_frames, dist_frames,   \* main: the retained frames
    frame_count,   \* main
    reads,         \* main: number of read_yuv420p_frame calls made on each stream
    decode_failed, \* main: a std::runtime_error reached the catch of the read loop
    i,             \* main: index of the metric loop
    total_psnr, valid_frames, avg_psnr,  \* main: PSNR accumulation
    skipped,       \* main: frames whose metric threw std::invalid_argument
    ref_y, dist_y, \* metric call: the two planes passed
    result,        \* metric call: what the call produced
    ref_pyramid, dist_pyramid, widths, heights,  \* msssim_y: the two pyramids
    scale,         \* msssim_y: loop variable of the running loop
    ms_ssim,       \* msssim_y: the factors pow(ssim_val, weights[scale]) multiplied so far
    ssim_calls     \* msssim_y: number of ssim_y calls made

mainVars == <<max_frames, ref_stream, dist_stream, ref_frame, ref_frames, dist_frames,
              frame_count, reads, decode_failed, i, total_psnr, valid_frames, avg_psnr,
              skipped>>
metricVars == <<ref_y, dist_y, result, ref_pyramid, dist_pyramid, widths, heights, scale,
                ms_ssim, ssim_calls>>
vars == <<pc, width, height, mainVars, metricVars>>

(***************************************************************************)
(* Bounds of the model.                                                    *)
(***************************************************************************)
MaxDim == 3          \* widths and heights 0..MaxDim
MaxStreamLen == 16   \* stream lengths 0..MaxStreamLen bytes
MaxFramesOpt == 2    \* max_frames in -2..MaxFramesOpt

Min(a, b) == IF a <= b THEN a ELSE b

Zeros(n) == [k \in 1..n |-> 0]

(***************************************************************************)
(* std::ifstream: the bytes of the file, the read cursor and the fail      *)
(* state (failbit or badbit; operator! and operator bool test it).         *)
(***************************************************************************)
\* The byte at offset k (from 0) of a stream of the given pattern (never 0, so
\* that a stored byte differs from the zero fill of a fresh plane).
ByteAt(seed, k) == 1 + ((seed + k * (2 * seed + 1)) % 255)

OpenStream(len, seed) ==
    [data |-> [k \in 1..len |-> ByteAt(seed, k - 1)], pos |-> 0, fail |-> FALSE]

\* file.read(buf, n): a stream that is not good extracts nothing and sets
\* failbit; otherwise up to n bytes are extracted and stored, and a short
\* count sets eofbit and failbit.  An I/O fault after some bytes leaves the
\* stream as a file ending at that byte does, so the stream lengths cover it.
StreamRead(file, n) ==
    IF file.fail
    THEN [file |-> file, bytes |-> <<>>]
    ELSE LET got == Min(n, Len(file.data) - file.pos)
         IN  [file  |-> [file EXCEPT !.pos = @ + got, !.fail = got < n],
              bytes |-> SubSeq(file.data, file.pos + 1, file.pos + got)]

\* if (!file)
ReadFailed_never(file) == FALSE
ReadFailed(file) == file.fail

(***************************************************************************)
(* YUVFrame and read_yuv420p_frame (src/yuv_reader.hpp).                   *)
(***************************************************************************)
NoFrame == [none |-> TRUE]

ChromaSize_quarter(w, h) == (w * h) \div 4
ChromaSize(w, h) == (w \div 2) * (h \div 2)

\* YUVFrame(w, h): the three planes resized (zero-filled) to their sizes.
YUVFrame(w, h) ==
    [y |-> Zeros(w * h), u |-> Zeros(ChromaSize(w, h)), v |-> Zeros(ChromaSize(w, h)),
     width |-> w, height |-> h]

\* The buffer after a read stored `bytes` at its start.
Stored(buf, bytes) ==
    [k \in 1..Len(buf) |-> IF k <= Len(bytes) THEN bytes[k] ELSE buf[k]]

\* read_yuv420p_frame(file, width, height): the frame is returned only when
\* no read failed; a throw destroys the local frame.
read_yuv420p_frame(file, w, h) ==
    LET f0 == YUVFrame(w, h)
        r1 == StreamRead(file, Len(f0.y))
        f1 == [f0 EXCEPT !.y = Stored(@, r1.bytes)]
    IN  IF ReadFailed(r1.file)
        THEN [threw |-> TRUE, plane |-> "Y", file |-> r1.file, frame |-> NoFrame]
        ELSE
    LET r2 == StreamRead(r1.file, Len(f1.u))
        f2 == [f1 EXCEPT !.u = Stored(@, r2.bytes)]
    IN  IF ReadFailed(r2.file)
        THEN [threw |-> TRUE, plane |-> "U", file |-> r2.file, frame |-> NoFrame]
        ELSE
    LET r3 == StreamRead(r2.file, Len(f2.v))
        f3 == [f2 EXCEPT !.v = Stored(@, r3.bytes)]
    IN  IF ReadFailed(r3.file)
        THEN [threw |-> TRUE, plane |-> "V", file |-> r3.file, frame |-> NoFrame]
        ELSE [threw |-> FALSE, plane |-> "", file |-> r3.file, frame |-> f3]

(***************************************************************************)
(* Sums over sequences of integers, by halving.                            *)
(***************************************************************************)
RECURSIVE SumRange(_, _, _)
SumRange(s, lo, hi) ==
    IF lo > hi THEN 0
    ELSE IF lo = hi THEN s[lo]
    ELSE LET mid == (lo + hi) \div 2
         IN  SumRange(s, lo, mid) + SumRange(s, mid + 1, hi)

Sum(s) == SumRange(s, 1, Len(s))

(***************************************************************************)
(* psnr_y (src/metrics.cpp).  A result is                                  *)
(*   [threw |-> "invalid_argument"]  or  [threw |-> "none", value |-> v]   *)
(* with sample_reads the number of plane samples the call indexed and oob  *)
(* whether one of them lay outside its plane.  A PSNR value v is           *)
(*   [kind |-> "sentinel"]  100.0                                          *)
(*   [kind |-> "db", sse, n]  20*log10(255/sqrt(sse/n)) with sse > 0       *)
(*   [kind |-> "nan"]  the quotient 0.0/0 of an empty plane                *)
(***************************************************************************)
\* ref_y.size() != dist_y.size() || ref_y.size() != static_cast<size_t>(width * height)
SizeCheckFails_refOnly(ref, dist, w, h) == Len(ref) # w * h
SizeCheckFails(ref, dist, w, h) == Len(ref) # Len(dist) \/ Len(ref) # w * h

InvalidArgument == [threw |-> "invalid_argument", sample_reads |-> 0, oob |-> FALSE]

\* plane[k] of the code, k counted from 0; a read outside the plane yields
\* some byte (taken as 0) and is recorded by the caller's oob.
Sample(plane, k) == IF k + 1 \in DOMAIN plane THEN plane[k + 1] ELSE 0

\* mse == 0.0, for mse = sse / total_pixels (0.0/0 is NaN and compares unequal)
MseIsZero_always(sse, n) == TRUE
MseIsZero(sse, n) == n > 0 /\ sse = 0

psnr_y(ref, dist, w, h) ==
    IF SizeCheckFails(ref, dist, w, h) THEN InvalidArgument
    ELSE LET total_pixels == Len(ref)
             sq  == [k \in 1..total_pixels |->
                        (Sample(ref, k - 1) - Sample(dist, k - 1))
                      * (Sample(ref, k - 1) - Sample(dist, k - 1))]
             sse == Sum(sq)
         IN  [threw |-> "none",
              value |-> IF MseIsZero(sse, total_pixels) THEN [kind |-> "sentinel"]
                        ELSE IF total_pixels = 0 THEN [kind |-> "nan"]
                        ELSE [kind |-> "db", sse |-> sse, n |-> total_pixels],
              sample_reads |-> 2 * total_pixels,
              oob |-> total_pixels > Len(dist)]

(***************************************************************************)
(* Exact arithmetic on naturals of any size: a number is the sequence of   *)
(* its digits in base Base, least significant first, without leading       *)
(* zeros.  It carries the double-precision products of ssim_y, which       *)
(* exceed 32 bits already for a 32x32 plane.                               *)
(***************************************************************************)
Base == 10000

RECURSIVE BNat(_)
BNat(n) == IF n = 0 THEN <<>> ELSE <<n % Base>> \o BNat(n \div Base)

Digit(a, k) == IF k <= Len(a) THEN a[k] ELSE 0

RECURSIVE BNorm(_)
BNorm(a) ==
    IF a = <<>> THEN <<>>
    ELSE IF a[Len(a)] = 0 THEN BNorm(SubSeq(a, 1, Len(a) - 1))
    ELSE a

RECURSIVE BAddFrom(_, _, _, _)
BAddFrom(a, b, k, carry) ==
    IF k > Len(a) /\ k > Len(b)
    THEN IF carry = 0 THEN <<>> ELSE <<carry>>
    ELSE LET t == Digit(a, k) + Digit(b, k) + carry
         IN  <<t % Base>> \o BAddFrom(a, b, k + 1, t \div Base)

BAdd(a, b) == BAddFrom(a, b, 1, 0)

\* a - b for a >= b
RECURSIVE BSubFrom(_, _, _, _)
BSubFrom(a, b, k, borrow) ==
    IF k > Len(a) THEN <<>>
    ELSE LET t == Digit(a, k) - Digit(b, k) - borrow
         IN  IF t < 0 THEN <<t + Base>> \o BSubFrom(a, b, k + 1, 1)
             ELSE <<t>> \o BSubFrom(a, b, k + 1, 0)

BSub(a, b) == BNorm(BSubFrom(a, b, 1, 0))

RECURSIVE BMulDigitFrom(_, _, _, _)
BMulDigitFrom(a, d, k, carry) ==
    IF k > Len(a)
    THEN IF carry = 0 THEN <<>> ELSE <<carry>>
    ELSE LET t == a[k] * d + carry
         IN  <<t % Base>> \o BMulDigitFrom(a, d, k + 1, t \div Base)

RECURSIVE BMul(_, _)
BMul(a, b) ==
    IF a = <<>> \/ b = <<>> THEN <<>>
    ELSE BNorm(BAdd(BMulDigitFrom(a, b[1], 1, 0), <<0>> \o BMul(a, Tail(b))))

\* -1, 0, 1 as a < b, a = b, a > b
RECURSIVE BCmpFrom(_, _, _)
BCmpFrom(a, b, k) ==
    IF k = 0 THEN 0
    ELSE IF a[k] < b[k] THEN -1
    ELSE IF a[k] > b[k] THEN 1
    ELSE BCmpFrom(a, b, k - 1)

BCmp(a, b) ==
    IF Len(a) < Len(b) THEN -1
    ELSE IF Len(a) > Len(b) THEN 1
    ELSE BCmpFrom(a, b, Len(a))

(***************************************************************************)
(* generate_gaussian_kernel and apply_gaussian_filter (src/metrics.cpp):   *)
(* the indices the filter samples.  The filtered values themselves are     *)
(* not used by ssim_y's result (it is computed from whole-plane            *)
(* statistics, lines 184-215).                                             *)
(***************************************************************************)
KernelSize == 11

\* Lines 63-66 (and 79-82): the symmetric padding of a sample index.
ReflectIndex(idx, dim) ==
    LET a == IF idx < 0 THEN -idx ELSE idx
    IN  IF a >= dim THEN 2 * dim - a - 1 ELSE a

\* The indices sampled along a dimension of size dim by a kernel of `size` taps.
SampledIndices(dim, size) ==
    {ReflectIndex(x + k - size \div 2, dim) : x \in 0..(dim - 1), k \in 0..(size - 1)}

\* Every (tap position, index sampled) pair of one pass over a dimension of
\* size dim: the tap position is x + k - half (lines 62 and 78).
FilterTaps(dim, size) ==
    {<<x + k - size \div 2, ReflectIndex(x + k - size \div 2, dim)>> :
        x \in 0..(dim - 1), k \in 0..(size - 1)}

\* Whether apply_gaussian_filter reads outside the plane or its intermediate
\* buffer for these dimensions.
FilterReadsOutside(w, h, size) ==
    /\ w > 0 /\ h > 0
    /\ \/ \E xi \in SampledIndices(w, size) : xi < 0 \/ xi >= w
       \/ \E yi \in SampledIndices(h, size) : yi < 0 \/ yi >= h

(***************************************************************************)
(* ssim_y (src/metrics.cpp).  An SSIM value is                             *)
(*   [kind |-> "ratio", neg, num, den]  the number (neg ? -1 : 1)*num/den, *)
(*                                      num and den exact naturals         *)
(*   [kind |-> "one"]                   the literal 1.0 of line 212        *)
(*   [kind |-> "nan"]                   a quotient 0.0/0 (fewer than two   *)
(*                                      pixels)                            *)
(***************************************************************************)
L == 255
\* K1 = 0.01 and K2 = 0.03 as K1Hundredths/100 and K2Hundredths/100, so that
\* C1 = C1Num/CDen and C2 = C2Num/CDen.
K1Hundredths == 1
K2Hundredths == 3
CDen == 100 * 100
C1Num == (K1Hundredths * L) * (K1Hundredths * L)
C2Num == (K2Hundredths * L) * (K2Hundredths * L)

\* numerator / denominator of lines 208-215 for the plane sums
\*   s1 = sum ref, s2 = sum dist, sxx = sum ref^2, syy = sum dist^2, sxy = sum ref*dist
\* over n >= 2 pixels, both scaled by CDen^2 * n^3 * (n-1):
\*   2*mean1*mean2 + C1           = lumNum / (CDen * n^2)
\*   mean1^2 + mean2^2 + C1       = lumDen / (CDen * n^2)
\*   2*covar + C2                 = (csPos - csNeg) / (CDen * n * (n-1))
\*   var1 + var2 + C2             = csDen / (CDen * n * (n-1))
\* The positive part of the numerator of 2*covar + C2, scaled by CDen*n*(n-1):
\* 2*CDen*n*sxy + C2Num*n*(n-1)  (the part 2*CDen*s1*s2 is subtracted from it).
CovarTerm_single(n, sxy) ==
    BAdd(BMul(BNat(CDen), BMul(BNat(n), BNat(sxy))),
         BMul(BNat(C2Num), BMul(BNat(n), BNat(n - 1))))
CovarTerm(n, sxy) ==
    BAdd(BMul(BNat(2 * CDen), BMul(BNat(n), BNat(sxy))),
         BMul(BNat(C2Num), BMul(BNat(n), BNat(n - 1))))

SsimRatio(n, s1, s2, sxx, syy, sxy) ==
    LET bn     == BNat(n)
        bn1    == BNat(n - 1)
        b1     == BNat(s1)
        b2     == BNat(s2)
        c1n2   == BMul(BNat(C1Num), BMul(bn, bn))
        c2nn1  == BMul(BNat(C2Num), BMul(bn, bn1))
        s1s2   == BMul(b1, b2)
        lumNum == BAdd(BMul(BNat(2 * CDen), s1s2), c1n2)
        lumDen == BAdd(BMul(BNat(CDen), BAdd(BMul(b1, b1), BMul(b2, b2))), c1n2)
        csPos  == CovarTerm(n, sxy)
        csNeg  == BMul(BNat(2 * CDen), s1s2)
        csDen  == BAdd(BMul(BNat(CDen),
                            BSub(BAdd(BMul(bn, BNat(sxx)), BMul(bn, BNat(syy))),
                                 BAdd(BMul(b1, b1), BMul(b2, b2)))),
                       c2nn1)
        neg    == BCmp(csPos, csNeg) < 0
        csAbs  == IF neg THEN BSub(csNeg, csPos) ELSE BSub(csPos, csNeg)
        den    == BMul(lumDen, csDen)
    IN  IF den = <<>> THEN [kind |-> "one"]
        ELSE [kind |-> "ratio", neg |-> neg, num |-> BMul(lumNum, csAbs), den |-> den]

\* Lines 167-169: static_cast<uint8_t>(std::min(255.0, a * b / 255.0)), the
\* sample of a squared or product plane handed to the filter at lines 173-175.
SquaredTerm(a, b) == Min(L, (a * b) \div L) % (L + 1)

ssim_y(ref, dist, w, h) ==
    IF SizeCheckFails(ref, dist, w, h) THEN InvalidArgument
    ELSE LET n   == w * h
             xs  == [k \in 1..n |-> Sample(ref, k - 1)]
             ys  == [k \in 1..n |-> Sample(dist, k - 1)]
             s1  == Sum(xs)
             s2  == Sum(ys)
             sxx == Sum([k \in 1..n |-> xs[k] * xs[k]])
             syy == Sum([k \in 1..n |-> ys[k] * ys[k]])
             sxy == Sum([k \in 1..n |-> xs[k] * ys[k]])
         IN  [threw |-> "none",
              value |-> IF n < 2 THEN [kind |-> "nan"]
                        ELSE SsimRatio(n, s1, s2, sxx, syy, sxy),
              sample_reads |-> 2 * n,
              oob |-> n > Len(ref) \/ n > Len(dist),
              filter_oob |-> FilterReadsOutside(w, h, KernelSize),
              ref_y_squared  |-> [k \in 1..n |-> SquaredTerm(xs[k], xs[k])],
              dist_y_squared |-> [k \in 1..n |-> SquaredTerm(ys[k], ys[k])],
              ref_dist_prod  |-> [k \in 1..n |-> SquaredTerm(xs[k], ys[k])]]

\* Comparisons of an SSIM value v with 0 and with 1.
SsimLeZero(v) == v.kind = "ratio" /\ (v.neg \/ v.num = <<>>)
SsimLeOne(v) ==
    v.kind = "one" \/ (v.kind = "ratio" /\ (v.neg \/ BCmp(v.num, v.den) <= 0))

\* Line 287: if (ssim_val <= 0.0) return 0.0
ShortCircuits_never(v) == FALSE
ShortCircuits(v) == SsimLeZero(v)

(***************************************************************************)
(* downsample_2x2 (src/metrics.cpp).                                       *)
(***************************************************************************)
\* Line 222
TooSmallToHalve_widthOnly(new_width, new_height) == new_width = 0
TooSmallToHalve(new_width, new_height) == new_width = 0 \/ new_height = 0

\* Lines 219-220: width / 2, height / 2
Halved_up(d) == (d + 1) \div 2
Halved(d) == d \div 2

\* Line 240: static_cast<uint8_t>(sum / 4)
PoolAverage_rounded(sum) == ((sum + 2) \div 4) % 256
PoolAverage(sum) == (sum \div 4) % 256

downsample_2x2(image, w, h) ==
    LET new_width  == Halved(w)
        new_height == Halved(h)
    IN  IF TooSmallToHalve(new_width, new_height)
        THEN [threw |-> "invalid_argument", new_width |-> new_width,
              new_height |-> new_height]
        ELSE [threw |-> "none", new_width |-> new_width, new_height |-> new_height,
              data |->
                [idx \in 1..(new_width * new_height) |->
                    LET x     == (idx - 1) % new_width
                        y     == (idx - 1) \div new_width
                        src_x == x * 2
                        src_y == y * 2
                        sum   == Sample(image, src_y * w + src_x)
                               + (IF src_x + 1 < w
                                  THEN Sample(image, src_y * w + (src_x + 1)) ELSE 0)
                               + (IF src_y + 1 < h
                                  THEN Sample(image, (src_y + 1) * w + src_x) ELSE 0)
                               + (IF src_x + 1 < w /\ src_y + 1 < h
                                  THEN Sample(image, (src_y + 1) * w + (src_x + 1))
                                  ELSE 0)
                    IN  PoolAverage(sum)]]

(***************************************************************************)
(* The compute branch of main (src/main.cpp).                              *)
(***************************************************************************)
Seeds == {1, 2}

InitMain ==
    /\ pc = "validate"
    /\ width \in 0..MaxDim
    /\ height \in 0..MaxDim
    /\ max_frames \in -2..MaxFramesOpt
    /\ \E n \in 0..MaxStreamLen : ref_stream = OpenStream(n, 1)
    /\ \E n \in 0..MaxStreamLen, s \in Seeds : dist_stream = OpenStream(n, s)
    /\ ref_frame = NoFrame
    /\ ref_frames = <<>>
    /\ dist_frames = <<>>
    /\ frame_count = 0
    /\ reads = [ref |-> 0, dist |-> 0]
    /\ decode_failed = FALSE
    /\ i = 0
    /\ total_psnr = <<>>
    /\ valid_frames = 0
    /\ avg_psnr = [kind |-> "unset"]
    /\ skipped = {}
    /\ ref_y = <<>>
    /\ dist_y = <<>>
    /\ result = [fn |-> "none"]
    /\ ref_pyramid = <<>>
    /\ dist_pyramid = <<>>
    /\ widths = <<>>
    /\ heights = <<>>
    /\ scale = 0
    /\ ms_ssim = <<>>
    /\ ssim_calls = 0

\* Lines 58-60: non-positive dimensions end the run with an error.
Validate ==
    /\ pc = "validate"
    /\ pc' = IF width <= 0 \/ height <= 0 THEN "error" ELSE "loop"
    /\ UNCHANGED <<width, height, mainVars, metricVars>>

\* The condition of the while loop, lines 80-81.
LoopCond_nomax == ~ref_stream.fail /\ ~dist_stream.fail
LoopCond ==
    /\ max_frames = -1 \/ frame_count < max_frames
    /\ ~ref_stream.fail /\ ~dist_stream.fail

LoopTest ==
    /\ pc = "loop"
    /\ pc' = IF LoopCond THEN "read_ref" ELSE "metrics"
    /\ UNCHANGED <<width, height, mainVars, metricVars>>

\* Line 83, and the catch of lines 88-90 when it throws.
ReadRefFrame ==
    /\ pc = "read_ref"
    /\ LET r == read_yuv420p_frame(ref_stream, width, height)
       IN  /\ ref_stream' = r.file
           /\ reads' = [reads EXCEPT !.ref = @ + 1]
           /\ IF r.threw
              THEN /\ decode_failed' = TRUE
                   /\ pc' = "metrics"
                   /\ UNCHANGED ref_frame
              ELSE /\ ref_frame' = r.frame
                   /\ pc' = "read_dist"
                   /\ UNCHANGED decode_failed
    /\ UNCHANGED <<width, height, max_frames, dist_stream, ref_frames, dist_frames,
                   frame_count, i, total_psnr, valid_frames, avg_psnr, skipped,
                   metricVars>>

\* Lines 84-87, and the catch of lines 88-90 when the read throws: the local
\* ref_frame goes out of scope either way.
ReadDistFrame ==
    /\ pc = "read_dist"
    /\ LET r == read_yuv420p_frame(dist_stream, width, height)
       IN  /\ dist_stream' = r.file
           /\ reads' = [reads EXCEPT !.dist = @ + 1]
           /\ ref_frame' = NoFrame
           /\ IF r.threw
              THEN /\ decode_failed' = TRUE
                   /\ pc' = "metrics"
                   /\ UNCHANGED <<ref_frames, dist_frames, frame_count>>
              ELSE /\ ref_frames' = Append(ref_frames, ref_frame)
                   /\ dist_frames' = Append(dist_frames, r.frame)
                   /\ frame_count' = frame_count + 1
                   /\ pc' = "loop"
                   /\ UNCHANGED decode_failed
    /\ UNCHANGED <<width, height, max_frames, ref_stream, i, total_psnr, valid_frames,
                   avg_psnr, skipped, metricVars>>

\* One iteration of the metric loop, lines 96-106.
MetricStep ==
    /\ pc = "metrics"
    /\ i < frame_count
    /\ LET r == psnr_y(ref_frames[i + 1].y, dist_frames[i + 1].y, width, height)
       IN  IF r.threw = "invalid_argument"
           THEN /\ skipped' = skipped \cup {i}
                /\ UNCHANGED <<total_psnr, valid_frames>>
           ELSE /\ total_psnr' = Append(total_psnr, r.value)
                /\ valid_frames' = valid_frames + 1
                /\ UNCHANGED skipped
    /\ i' = i + 1
    /\ UNCHANGED <<pc, width, height, max_frames, ref_stream, dist_stream, ref_frame,
                   ref_frames, dist_frames, frame_count, reads, decode_failed, avg_psnr,
                   metricVars>>

\* Line 108: avg_psnr = (valid_frames > 0) ? total_psnr / valid_frames : 0.0
Average_unguarded(total, valid) == [kind |-> "quotient", sum |-> total, n |-> valid]
Average(total, valid) ==
    IF valid > 0 THEN [kind |-> "quotient", sum |-> total, n |-> valid]
    ELSE [kind |-> "zero"]

Finish ==
    /\ pc = "metrics"
    /\ ~(i < frame_count)
    /\ avg_psnr' = Average(total_psnr, valid_frames)
    /\ pc' = "done"
    /\ UNCHANGED <<width, height, max_frames, ref_stream, dist_stream, ref_frame,
                   ref_frames, dist_frames, frame_count, reads, decode_failed, i,
                   total_psnr, valid_frames, skipped, metricVars>>

NextMain == Validate \/ LoopTest \/ ReadRefFrame \/ ReadDistFrame \/ MetricStep \/ Finish

SpecMain == InitMain /\ [][NextMain]_vars

(***************************************************************************)
(* One call of a metric function (src/metrics.cpp) on drawn inputs.        *)
(* msssim_y runs as a sequence of steps: entry checks, one step per        *)
(* pyramid level built, one step per scale evaluated.                      *)
(***************************************************************************)
\* Line 254, and line 253 with the weights in ten-thousandths.
NumScales == 5
Weights == <<448, 2856, 3001, 2363, 1333>>

\* 1 << num_scales
RECURSIVE Pow2(_)
Pow2(n) == IF n = 0 THEN 1 ELSE 2 * Pow2(n - 1)

MaxExhaust == 4      \* planes of up to MaxExhaust samples are drawn exhaustively
MsExtra == 1         \* msssim_y dimensions up to (1 << num_scales) + MsExtra

PixelVals == {0, 128, 255}

\* All planes of n samples over PixelVals.
RECURSIVE AllPlanes(_)
AllPlanes(n) ==
    IF n = 0 THEN {<<>>}
    ELSE {Append(p, v) : p \in AllPlanes(n - 1), v \in PixelVals}

\* Patterned planes: sample k (from 0) is (a + b*k) mod 256.  Uniform grey,
\* black and white, rising and falling ramps, and a ramp of stride 7.
Patterns == {<<128, 0>>, <<130, 0>>, <<0, 0>>, <<255, 0>>, <<0, 1>>, <<255, 255>>, <<0, 7>>}
RefPatterns == {<<128, 0>>, <<0, 0>>, <<0, 1>>}
Pattern(n, p) == [k \in 1..n |-> (p[1] + p[2] * (k - 1)) % 256]

\* A textured w x h plane: a one-pixel checkerboard of amplitude 60 over a
\* two-pixel checkerboard of amplitude 20 and sign sgn, around mid grey.  Two
\* such planes of opposite sign agree at full resolution and oppose each other
\* once 2x2 pooling has averaged the fine checkerboard away.
Texture(w, h, sgn) ==
    [k \in 1..(w * h) |->
        LET x == (k - 1) % w
            y == (k - 1) \div w
        IN  128 + (IF (x + y) % 2 = 0 THEN 60 ELSE -60)
                + sgn * (IF ((x \div 2) + (y \div 2)) % 2 = 0 THEN 20 ELSE -20)]

\* The reference and the distorted planes of n samples that are drawn.
RefPlanesOf(n) ==
    IF n <= MaxExhaust THEN AllPlanes(n) ELSE {Pattern(n, p) : p \in RefPatterns}
DistPlanesOf(n) ==
    IF n <= MaxExhaust THEN AllPlanes(n) ELSE {Pattern(n, p) : p \in Patterns}

\* Plane lengths that do not match n.
WrongLengths(n) == {m \in {n - 1, n + 1} : m >= 0}

\* The (ref_y, dist_y) pairs passed with dimensions w x h: every pair of
\* matching planes, and pairs in which one or both lengths are wrong.
PlanePairs(w, h) ==
    LET n == w * h
        grey(m) == Pattern(m, <<128, 0>>)
    IN  (RefPlanesOf(n) \X DistPlanesOf(n))
        \cup (IF n <= MaxExhaust THEN {}
              ELSE {<<Texture(w, h, 1), Texture(w, h, -1)>>})
        \cup {<<grey(n), grey(m)>> : m \in WrongLengths(n)}
        \cup {<<grey(m), grey(n)>> : m \in WrongLengths(n)}
        \cup {<<grey(m), grey(m)>> : m \in WrongLengths(n)}

SmallDims == 0..MaxDim
MsDims == (Pow2(NumScales) - 1)..(Pow2(NumScales) + MsExtra)

InitMetric ==
    /\ pc = "call"
    /\ \/ width \in SmallDims /\ height \in SmallDims
       \/ width \in MsDims /\ height \in MsDims
    /\ \E pair \in PlanePairs(width, height) : ref_y = pair[1] /\ dist_y = pair[2]
    /\ result = [fn |-> "none"]
    /\ ref_pyramid = <<>>
    /\ dist_pyramid = <<>>
    /\ widths = <<>>
    /\ heights = <<>>
    /\ scale = 0
    /\ ms_ssim = <<>>
    /\ ssim_calls = 0
    /\ max_frames = -1
    /\ ref_stream = OpenStream(0, 1)
    /\ dist_stream = OpenStream(0, 1)
    /\ ref_frame = NoFrame
    /\ ref_frames = <<>>
    /\ dist_frames = <<>>
    /\ frame_count = 0
    /\ reads = [ref |-> 0, dist |-> 0]
    /\ decode_failed = FALSE
    /\ i = 0
    /\ total_psnr = <<>>
    /\ valid_frames = 0
    /\ avg_psnr = [kind |-> "unset"]
    /\ skipped = {}

callFrame == <<width, height, ref_y, dist_y, mainVars>>
pyramidVars == <<ref_pyramid, dist_pyramid, widths, heights>>

CallPsnr ==
    /\ pc = "call"
    /\ result' = [fn |-> "psnr_y", r |-> psnr_y(ref_y, dist_y, width, height)]
    /\ pc' = "returned"
    /\ UNCHANGED <<callFrame, pyramidVars, scale, ms_ssim, ssim_calls>>

\* Whether a call of ssim_y gets past its size check (line 94) and then
\* filters a plane (lines 109-110) with reads outside it.
FilterFaults(ref, dist, w, h) ==
    /\ ~SizeCheckFails(ref, dist, w, h)
    /\ FilterReadsOutside(w, h, KernelSize)

\* A read outside a vector (lines 68 and 84) is undefined: the values read are
\* never used by the result, so the call either goes on to return, or the
\* process is stopped at the read (a checked operator[], a sanitizer, a fault).
CallSsim ==
    /\ pc = "call"
    /\ LET r == ssim_y(ref_y, dist_y, width, height)
       IN  \/ /\ result' = [fn |-> "ssim_y", r |-> r]
              /\ pc' = "returned"
           \/ /\ FilterFaults(ref_y, dist_y, width, height)
              /\ result' = [fn |-> "ssim_y"]
              /\ pc' = "aborted"
    /\ UNCHANGED <<callFrame, pyramidVars, scale, ms_ssim, ssim_calls>>

\* downsample_2x2 has no size check of its own; its callers (msssim_y, the
\* tests) pass a plane of width*height samples.
CallDownsample ==
    /\ pc = "call"
    /\ Len(ref_y) = width * height
    /\ result' = [fn |-> "downsample_2x2", r |-> downsample_2x2(ref_y, width, height)]
    /\ pc' = "returned"
    /\ UNCHANGED <<callFrame, pyramidVars, scale, ms_ssim, ssim_calls>>

\* Line 256
ImageTooSmall_widthOnly(w, h) == w < Pow2(NumScales)
ImageTooSmall(w, h) == w < Pow2(NumScales) \/ h < Pow2(NumScales)

\* msssim_y, lines 248-267: the two checks, then level 0 of both pyramids.
MsssimEnter ==
    /\ pc = "call"
    /\ IF SizeCheckFails(ref_y, dist_y, width, height)
       THEN /\ result' = [fn |-> "msssim_y", r |-> [threw |-> "invalid_argument",
                                                    what |-> "size"]]
            /\ pc' = "returned"
            /\ UNCHANGED <<pyramidVars, scale>>
       ELSE IF ImageTooSmall(width, height)
       THEN /\ result' = [fn |-> "msssim_y", r |-> [threw |-> "invalid_argument",
                                                    what |-> "too small"]]
            /\ pc' = "returned"
            /\ UNCHANGED <<pyramidVars, scale>>
       ELSE /\ ref_pyramid' = <<ref_y>>
            /\ dist_pyramid' = <<dist_y>>
            /\ widths' = <<width>>
            /\ heights' = <<height>>
            /\ scale' = 1
            /\ pc' = "ms_build"
            /\ result' = [fn |-> "msssim_y"]
    /\ UNCHANGED <<callFrame, ms_ssim, ssim_calls>>

\* One iteration of the loop of lines 269-278 (widths[scale-1] is widths[scale] here,
\* sequences being indexed from 1).
MsssimBuildLevel ==
    /\ pc = "ms_build"
    /\ scale < NumScales
    /\ LET ref_down  == downsample_2x2(ref_pyramid[scale], widths[scale], heights[scale])
           dist_down == downsample_2x2(dist_pyramid[scale], widths[scale], heights[scale])
       IN  IF ref_down.threw # "none" \/ dist_down.threw # "none"
           THEN /\ result' = [fn |-> "msssim_y", r |-> [threw |-> "invalid_argument",
                                                        what |-> "downsample"]]
                /\ pc' = "returned"
                /\ UNCHANGED <<pyramidVars, scale>>
           ELSE /\ ref_pyramid' = Append(ref_pyramid, ref_down.data)
                /\ dist_pyramid' = Append(dist_pyramid, dist_down.data)
                /\ widths' = Append(widths, dist_down.new_width)
                /\ heights' = Append(heights, dist_down.new_height)
                /\ scale' = scale + 1
                /\ UNCHANGED <<pc, result>>
    /\ UNCHANGED <<callFrame, ms_ssim, ssim_calls>>

\* Line 282 and the entry of the loop of line 284.
MsssimStartEval ==
    /\ pc = "ms_build"
    /\ ~(scale < NumScales)
    /\ ms_ssim' = <<>>
    /\ scale' = 0
    /\ pc' = "ms_eval"
    /\ UNCHANGED <<callFrame, pyramidVars, result, ssim_calls>>

\* One iteration of the loop of lines 284-292.
MsssimEvalScale ==
    /\ pc = "ms_eval"
    /\ scale < NumScales
    /\ LET s == ssim_y(ref_pyramid[scale + 1], dist_pyramid[scale + 1],
                       widths[scale + 1], heights[scale + 1])
       IN  /\ ssim_calls' = ssim_calls + 1
           /\ \/ IF s.threw # "none"
                 THEN /\ result' = [fn |-> "msssim_y", r |-> [threw |-> "invalid_argument",
                                                              what |-> "ssim"]]
                      /\ pc' = "returned"
                      /\ UNCHANGED <<ms_ssim, scale>>
                 ELSE IF ShortCircuits(s.value)
                 THEN /\ result' = [fn |-> "msssim_y",
                                    r |-> [threw |-> "none", value |-> [kind |-> "zero"]]]
                      /\ pc' = "returned"
                      /\ UNCHANGED <<ms_ssim, scale>>
                 ELSE /\ ms_ssim' = Append(ms_ssim, [base |-> s.value,
                                                     weight |-> Weights[scale + 1]])
                      /\ scale' = scale + 1
                      /\ UNCHANGED <<pc, result>>
              \* the filter of this level read outside its plane (see CallSsim)
              \/ /\ FilterFaults(ref_pyramid[scale + 1], dist_pyramid[scale + 1],
                                 widths[scale + 1], heights[scale + 1])
                 /\ pc' = "aborted"
                 /\ UNCHANGED <<result, ms_ssim, scale>>
    /\ UNCHANGED <<callFrame, pyramidVars>>

\* Line 294
MsssimReturn ==
    /\ pc = "ms_eval"
    /\ ~(scale < NumScales)
    /\ result' = [fn |-> "msssim_y",
                  r |-> [threw |-> "none", value |-> [kind |-> "product",
                                                      factors |-> ms_ssim]]]
    /\ pc' = "returned"
    /\ UNCHANGED <<callFrame, pyramidVars, scale, ms_ssim, ssim_calls>>

NextMetric ==
    \/ CallPsnr \/ CallSsim \/ CallDownsample
    \/ MsssimEnter \/ MsssimBuildLevel \/ MsssimStartEval \/ MsssimEvalScale
    \/ MsssimReturn

SpecMetric == InitMetric /\ [][NextMetric]_vars

(***************************************************************************)
(* Claims about the frame reader and the compute loop (SpecMain).          *)
(***************************************************************************)
\* One frame's worth of bytes for the run's dimensions.
FrameBytes == width * height + 2 * ((width \div 2) * (height \div 2))

\* `frame` holds exactly the bytes of `data` from offset off: Y, then U, then V.
FilledFrom(frame, data, off) ==
    LET ny == width * height
        nc == (width \div 2) * (height \div 2)
    IN  /\ frame # NoFrame
        /\ off + ny + 2 * nc <= Len(data)
        /\ frame.y = SubSeq(data, off + 1, off + ny)
        /\ frame.u = SubSeq(data, off + ny + 1, off + ny + nc)
        /\ frame.v = SubSeq(data, off + ny + nc + 1, off + ny + 2 * nc)

\* The frames the caller can see after the step.
NoNewFrame == ref_frames' = ref_frames /\ dist_frames' = dist_frames /\ ref_frame' = NoFrame

\* C1: every call of read_yuv420p_frame either hands the caller a frame whose
\* Y, U and V planes are all filled from the stream, or throws; whenever the
\* stream holds less than one frame at the call (short in Y, U or V), the call
\* throws and the caller sees no new frame, in particular no partial one.
C1_ReadStep ==
    /\ reads'.ref = reads.ref + 1 =>
          IF ~ref_stream.fail /\ Len(ref_stream.data) - ref_stream.pos >= FrameBytes
          THEN /\ ~decode_failed'
               /\ FilledFrom(ref_frame', ref_stream.data, ref_stream.pos)
          ELSE decode_failed' /\ NoNewFrame
    /\ reads'.dist = reads.dist + 1 =>
          IF ~dist_stream.fail /\ Len(dist_stream.data) - dist_stream.pos >= FrameBytes
          THEN /\ ~decode_failed'
               /\ Len(dist_frames') = Len(dist_frames) + 1
               /\ FilledFrom(dist_frames'[Len(dist_frames')], dist_stream.data,
                             dist_stream.pos)
               /\ ref_frames' = Append(ref_frames, ref_frame)
          ELSE decode_failed' /\ NoNewFrame
C1_AllOrNothing == [][C1_ReadStep]_vars

\* C1 witness: the distorted stream ran out inside the U or V plane (its Y
\* plane was read in full), the call threw and no frame of the pair is held.
C1_Witness ==
    /\ decode_failed /\ dist_stream.fail /\ ~ref_stream.fail
    /\ (width \div 2) * (height \div 2) > 0
    /\ dist_stream.pos >= frame_count * FrameBytes + width * height
    /\ ref_frame = NoFrame
    /\ Len(ref_frames) = frame_count

\* C2: a successful read consumes width*height bytes into Y, then
\* floor(width/2)*floor(height/2) into U, then as many into V, so the cursor
\* of a stream that has not failed stands at (number of calls) * FrameBytes
\* and the k-th retained frame is the k-th frame of the stream.
C2_ConsecutiveFrames ==
    pc # "validate" /\ pc # "error" =>
        /\ ~ref_stream.fail => ref_stream.pos = reads.ref * FrameBytes
        /\ ~dist_stream.fail => dist_stream.pos = reads.dist * FrameBytes
        /\ \A k \in 1..Len(ref_frames) :
               FilledFrom(ref_frames[k], ref_stream.data, (k - 1) * FrameBytes)
        /\ \A k \in 1..Len(dist_frames) :
               FilledFrom(dist_frames[k], dist_stream.data, (k - 1) * FrameBytes)
        /\ ref_frame # NoFrame =>
               FilledFrom(ref_frame, ref_stream.data, frame_count * FrameBytes)

\* C2 witness: two frames of odd width with non-empty chroma planes were read.
C2_Witness ==
    /\ frame_count = 2 /\ width = 3 /\ height = 2
    /\ ~ref_stream.fail /\ ref_stream.pos = 16

\* C3: the first decode failure ends frame iteration: afterwards no read is
\* made on either stream and nothing is added to the frame lists; the two
\* lists always have frame_count elements; max_frames >= 0 bounds frame_count.
C3_State ==
    /\ Len(ref_frames) = frame_count
    /\ Len(dist_frames) = frame_count
    /\ max_frames >= 0 => frame_count <= max_frames
    /\ decode_failed => pc \in {"metrics", "done"} /\ ref_frame = NoFrame
C3_Step ==
    decode_failed =>
        /\ reads' = reads
        /\ ref_stream' = ref_stream /\ dist_stream' = dist_stream
        /\ ref_frames' = ref_frames /\ dist_frames' = dist_frames
        /\ frame_count' = frame_count
C3_DecodeFailureStops == []C3_State /\ [][C3_Step]_vars

\* C3 witness: after one retained pair the reference read succeeded and the
\* distorted read failed; the run finished with that reference frame dropped.
C3_Witness ==
    /\ pc = "done" /\ decode_failed
    /\ ~ref_stream.fail /\ dist_stream.fail
    /\ frame_count = 1 /\ reads.ref = 2 /\ reads.dist = 2
    /\ max_frames = -1

\* The PSNR of retained frame k (from 0).
FramePsnr(k) == psnr_y(ref_frames[k + 1].y, dist_frames[k + 1].y, width, height)

\* The values added to total_psnr by frames 0..n-1, in order.
RECURSIVE Accumulated(_)
Accumulated(n) ==
    IF n = 0 THEN <<>>
    ELSE IF FramePsnr(n - 1).threw = "invalid_argument" THEN Accumulated(n - 1)
    ELSE Append(Accumulated(n - 1), FramePsnr(n - 1).value)

C4_ZeroAverageReached ==
    pc = "done" /\ decode_failed /\ valid_frames = 0 /\ avg_psnr.kind = "zero"

(***************************************************************************)
(* Claims about the metric functions (SpecMetric).                         *)
(***************************************************************************)
Returned(fn) == pc = "returned" /\ result.fn = fn

SizesMatch == Len(ref_y) = Len(dist_y) /\ Len(ref_y) = width * height

\* C5: psnr_y, ssim_y and msssim_y throw invalid_argument whenever the planes
\* differ in length or the reference length is not width*height, and they do
\* so before indexing any sample: no sample is read, no pyramid level is
\* built and no SSIM is computed.
C5_MismatchThrowsFirst ==
    ~SizesMatch =>
        /\ pc \in {"call", "returned"}
        /\ ref_pyramid = <<>> /\ dist_pyramid = <<>> /\ ssim_calls = 0
        /\ pc = "returned" /\ result.fn \in {"psnr_y", "ssim_y", "msssim_y"} =>
              result.r.threw = "invalid_argument"
        /\ pc = "returned" /\ result.fn \in {"psnr_y", "ssim_y"} =>
              result.r.sample_reads = 0 /\ ~result.r.oob

\* C5 witness: ssim_y was called with a distorted plane shorter than the
\* width*height samples of the reference, and threw.
C5_Witness ==
    /\ Returned("ssim_y")
    /\ Len(ref_y) = width * height /\ Len(dist_y) < Len(ref_y)
    /\ result.r.threw = "invalid_argument"

\* C6: for two non-empty planes of matching size, psnr_y returns the sentinel
\* 100.0 exactly when the planes are identical; a pair differing in a sample
\* takes the 20*log10(255/sqrt(MSE)) branch with MSE > 0, so the result is
\* finite.
C6_SentinelIffIdentical ==
    Returned("psnr_y") /\ SizesMatch /\ width * height > 0 =>
        /\ result.r.threw = "none"
        /\ result.r.value.kind = "sentinel" <=> ref_y = dist_y
        /\ ref_y # dist_y =>
              /\ result.r.value.kind = "db"
              /\ result.r.value.sse > 0
              /\ result.r.value.n = width * height

\* C6 witness: the planes differ in exactly one sample and the call returned
\* through the logarithm branch.
C6_Witness ==
    /\ Returned("psnr_y") /\ SizesMatch /\ width * height > 1
    /\ Cardinality({k \in 1..Len(ref_y) : ref_y[k] # dist_y[k]}) = 1
    /\ result.r.value.kind = "db"

\* An SSIM value equal to 1: numerator and denominator are the same number.
IsExactlyOne(v) ==
    v.kind = "one" \/ (v.kind = "ratio" /\ ~v.neg /\ v.num = v.den /\ v.den # <<>>)

\* C7: for a plane P of at least two samples, ssim_y(P,P) returns exactly 1.0
\* (numerator equals denominator); for P of at least 32x32, msssim_y(P,P)
\* returns exactly 1.0 (each of its five factors is a power of 1.0).
C7_IdenticalIsOne ==
    ref_y = dist_y /\ SizesMatch =>
        /\ Returned("ssim_y") /\ width * height >= 2 =>
              result.r.threw = "none" /\ IsExactlyOne(result.r.value)
        /\ Returned("msssim_y") /\ width >= 32 /\ height >= 32 =>
              /\ result.r.threw = "none"
              /\ result.r.value.kind = "product"
              /\ Len(result.r.value.factors) = 5
              /\ \A k \in 1..5 : IsExactlyOne(result.r.value.factors[k].base)

\* C7 witness: msssim_y returned for a non-uniform 33-wide plane compared
\* with itself.
C7_Witness ==
    /\ Returned("msssim_y") /\ ref_y = dist_y
    /\ width = 33 /\ height = 32 /\ Len(ref_y) = 33 * 32
    /\ ref_y[1] # ref_y[2]
    /\ result.r.threw = "none"

\* An SSIM value in (0, 1].
InUnitInterval(v) ==
    \/ v.kind = "one"
    \/ v.kind = "ratio" /\ ~v.neg /\ v.num # <<>> /\ BCmp(v.num, v.den) <= 0

\* C8: for same-size planes of at least 32x32 the value msssim_y returns lies
\* in [0,1]: it is 0.0, or the product of five factors pow(s, w) with
\* 0 < s <= 1 and w > 0; 0.0 is returned exactly when the SSIM of the scale
\* reached is <= 0; and every SSIM computed (by ssim_y itself on at least
\* two samples, or per scale) is at most 1.
C8_MsssimInRange ==
    /\ Returned("ssim_y") /\ SizesMatch /\ width * height >= 2 =>
          result.r.threw = "none" /\ SsimLeOne(result.r.value)
    /\ \A k \in 1..Len(ms_ssim) : InUnitInterval(ms_ssim[k].base) /\ ms_ssim[k].weight > 0
    /\ Returned("msssim_y") /\ SizesMatch /\ width >= 32 /\ height >= 32 =>
          /\ result.r.threw = "none"
          /\ \/ /\ result.r.value.kind = "zero"
                /\ LET s == ssim_y(ref_pyramid[scale + 1], dist_pyramid[scale + 1],
                                   widths[scale + 1], heights[scale + 1]).value
                   IN  s.kind = "ratio" /\ (s.neg \/ s.num = <<>>)
             \/ /\ result.r.value.kind = "product"
                /\ Len(result.r.value.factors) = 5
                /\ \A k \in 1..5 :
                      /\ InUnitInterval(result.r.value.factors[k].base)
                      /\ result.r.value.factors[k].weight > 0

\* C8 witness: a scale's SSIM was <= 0 and msssim_y returned 0.0.
C8_Witness ==
    /\ Returned("msssim_y") /\ SizesMatch /\ width >= 32 /\ height >= 32
    /\ result.r.threw = "none" /\ result.r.value.kind = "zero"

\* C8, the other case reached: a product of five factors, one of them below 1.
C8_ProductReached ==
    /\ Returned("msssim_y") /\ ref_y # dist_y
    /\ result.r.threw = "none" /\ result.r.value.kind = "product"
    /\ \E k \in 1..5 : ~IsExactlyOne(result.r.value.factors[k].base)

\* C9: for planes of width*height samples, msssim_y throws invalid_argument
\* exactly when width < 32 or height < 32, and then for being too small,
\* before any pyramid level is built or any SSIM is computed.
C9_TooSmallIff ==
    SizesMatch =>
        /\ Returned("msssim_y") =>
              /\ result.r.threw = "invalid_argument" <=> (width < 32 \/ height < 32)
              /\ result.r.threw = "invalid_argument" =>
                    /\ result.r.what = "too small"
                    /\ ref_pyramid = <<>> /\ dist_pyramid = <<>> /\ ssim_calls = 0
        /\ width < 32 \/ height < 32 => pc \notin {"ms_build", "ms_eval"}
        /\ width < 32 \/ height < 32 => ~(pc = "aborted" /\ result.fn = "msssim_y")

\* C9 witness: width is 32 and height 31, and msssim_y threw.
C9_Witness ==
    /\ Returned("msssim_y") /\ SizesMatch
    /\ width = 32 /\ height = 31
    /\ result.r.threw = "invalid_argument"

\* C10: downsample_2x2 throws invalid_argument exactly when width < 2 or
\* height < 2 and then returns no plane; otherwise it returns
\* floor(width/2) * floor(height/2) samples with new_width = floor(width/2)
\* and new_height = floor(height/2).
C10_DownsampleTooSmallIff ==
    Returned("downsample_2x2") =>
        /\ result.r.threw = "invalid_argument" <=> (width < 2 \/ height < 2)
        /\ result.r.threw = "invalid_argument" => "data" \notin DOMAIN result.r
        /\ result.r.threw = "none" =>
              /\ result.r.new_width = width \div 2
              /\ result.r.new_height = height \div 2
              /\ result.r.new_width >= 1 /\ result.r.new_height >= 1
              /\ Len(result.r.data) = (width \div 2) * (height \div 2)

\* C10 witness: the width can be halved but the height cannot, and the call
\* threw.
C10_Witness ==
    /\ Returned("downsample_2x2")
    /\ width >= 2 /\ height = 1
    /\ result.r.threw = "invalid_argument"

\* C10, the other case reached: an odd-sized plane was halved.
C10_OddHalved ==
    /\ Returned("downsample_2x2")
    /\ width = 3 /\ height = 3
    /\ result.r.threw = "none" /\ Len(result.r.data) = 1

\* The samples of the 2x2 block at (2x, 2y) that lie inside a w x h plane.
BlockSamples(image, w, h, x, y) ==
    {<<sx, sy>> \in {2 * x, 2 * x + 1} \X {2 * y, 2 * y + 1} : sx < w /\ sy < h}

RECURSIVE SumOfSamples(_, _, _)
SumOfSamples(image, w, at) ==
    IF at = {} THEN 0
    ELSE LET c == CHOOSE c \in at : TRUE
         IN  image[c[2] * w + c[1] + 1] + SumOfSamples(image, w, at \ {c})

\* C11: for width >= 2 and height >= 2, output sample (x,y) of downsample_2x2
\* is the sum of the samples of the block at (2x,2y) that lie inside the
\* plane, floor-divided by 4; it lies in 0..255, and a block of four equal
\* samples v gives v.
C11_BlockAverage ==
    Returned("downsample_2x2") /\ width >= 2 /\ height >= 2 =>
        /\ result.r.threw = "none"
        /\ \A x \in 0..(width \div 2 - 1), y \in 0..(height \div 2 - 1) :
              LET out   == result.r.data[y * (width \div 2) + x + 1]
                  block == BlockSamples(ref_y, width, height, x, y)
                  sum   == SumOfSamples(ref_y, width, block)
              IN  /\ out = sum \div 4
                  /\ sum \div 4 \in 0..255
                  /\ \A c \in block :
                        (Cardinality(block) = 4
                         /\ \A d \in block : ref_y[d[2] * width + d[1] + 1]
                                              = ref_y[c[2] * width + c[1] + 1])
                        => out = ref_y[c[2] * width + c[1] + 1]

\* C11 witness: a plane of odd width was pooled, and its first block holds
\* unequal samples.
C11_Witness ==
    /\ Returned("downsample_2x2") /\ width = 3 /\ height >= 2
    /\ result.r.threw = "none"
    /\ ref_y[1] # ref_y[2]

\* The plane dimensions apply_gaussian_filter has been called with: those of
\* a returned ssim_y call, and those of the pyramid levels msssim_y has
\* passed to ssim_y so far.
FilteredDims ==
    IF \/ Returned("ssim_y") /\ result.r.threw = "none"
       \/ pc = "aborted" /\ result.fn = "ssim_y"
    THEN {<<width, height>>}
    ELSE IF pc \in {"ms_eval", "returned", "aborted"} /\ result.fn = "msssim_y"
    THEN {<<widths[s], heights[s]>> : s \in 1..ssim_calls}
    ELSE {}

\* The index the sample of tap position idx is taken at, as stated: in-range
\* unchanged, idx < 0 at -idx, idx >= dim at 2*dim - idx - 1.
StatedIndex(idx, dim) ==
    IF idx < 0 THEN -idx
    ELSE IF idx >= dim THEN 2 * dim - idx - 1
    ELSE idx

\* C12: in both passes of apply_gaussian_filter, for every plane dimension
\* and kernel size the filter is called with, every pixel and every tap is
\* sampled at the reflected index: i unchanged when in range, -i when i < 0,
\* 2*dim - i - 1 when i >= dim.
C12_ReflectedIndex ==
    \A d \in FilteredDims :
        /\ \A t \in FilterTaps(d[1], KernelSize) : t[2] = StatedIndex(t[1], d[1])
        /\ \A t \in FilterTaps(d[2], KernelSize) : t[2] = StatedIndex(t[1], d[2])

\* C13: ssim_y computes its value from local windowed statistics in real
\* precision: the squared and product planes it filters hold x*x, y*y and
\* x*y themselves, with no round trip through 8 bits.  (The statement goes
\* on: a per-pixel SSIM map is built from the filtered planes and its mean
\* is returned; the planes that would feed that map are what is stated here.)
C13_NoEightBitRoundTrip ==
    Returned("ssim_y") /\ result.r.threw = "none" =>
        \A k \in 1..(width * height) :
            /\ result.r.ref_y_squared[k]  = ref_y[k] * ref_y[k]
            /\ result.r.dist_y_squared[k] = dist_y[k] * dist_y[k]
            /\ result.r.ref_dist_prod[k]  = ref_y[k] * dist_y[k]

\* A call of msssim_y that has passed both preconditions (lines 248-258).
MsValidCall ==
    /\ result.fn = "msssim_y"
    /\ SizesMatch /\ width >= 32 /\ height >= 32

\* The SSIM of pyramid level k (level 0 is the input).
LevelSsim(k) ==
    ssim_y(ref_pyramid[k + 1], dist_pyramid[k + 1], widths[k + 1], heights[k + 1])

\* The pyramids of a valid call: the levels built so far have the halved
\* dimensions, construction does not throw, and evaluation starts with
\* exactly five levels.
C14_Pyramids ==
    MsValidCall =>
        /\ Len(ref_pyramid) = Len(widths) /\ Len(dist_pyramid) = Len(widths)
        /\ Len(heights) = Len(widths) /\ Len(widths) \in 1..NumScales
        /\ \A k \in 0..(Len(widths) - 1) :
              /\ widths[k + 1] = width \div Pow2(k)
              /\ heights[k + 1] = height \div Pow2(k)
              /\ Len(ref_pyramid[k + 1]) = widths[k + 1] * heights[k + 1]
              /\ Len(dist_pyramid[k + 1]) = widths[k + 1] * heights[k + 1]
        /\ pc = "ms_build" => Len(widths) = scale
        /\ pc \in {"ms_eval", "returned", "aborted"} => Len(widths) = NumScales
        /\ pc = "returned" => result.r.threw = "none"
        /\ pc = "ms_eval" => ssim_calls = scale /\ Len(ms_ssim) = scale
        /\ Returned("msssim_y") /\ result.r.value.kind = "product" =>
              ssim_calls = NumScales /\ Len(result.r.value.factors) = NumScales
        /\ Returned("msssim_y") /\ result.r.value.kind = "zero" =>
              ssim_calls = Len(ms_ssim) + 1

\* The evaluation of a valid call, step by step: each step evaluates the SSIM
\* of level `scale`, the next one in order; a value <= 0 returns 0.0 at once,
\* any other value becomes the factor ssim^weight of that scale; after the
\* fifth scale the product of the factors is returned.
C14_EvalStep ==
    MsValidCall /\ pc = "ms_eval" /\ pc' \in {"ms_eval", "returned"} =>
        IF scale < NumScales
        THEN LET v == LevelSsim(scale).value
             IN  /\ ssim_calls' = ssim_calls + 1
                 /\ IF SsimLeZero(v)
                    THEN /\ pc' = "returned"
                         /\ result'.r = [threw |-> "none", value |-> [kind |-> "zero"]]
                         /\ ms_ssim' = ms_ssim
                    ELSE /\ pc' = "ms_eval"
                         /\ scale' = scale + 1
                         /\ ms_ssim' = Append(ms_ssim, [base |-> v,
                                                        weight |-> Weights[scale + 1]])
        ELSE /\ pc' = "returned"
             /\ ssim_calls' = ssim_calls
             /\ result'.r = [threw |-> "none",
                             value |-> [kind |-> "product", factors |-> ms_ssim]]

\* C14: for valid inputs of at least 32x32, msssim_y builds two pyramids of
\* exactly 5 levels, level k having dimensions floor(width/2^k) x
\* floor(height/2^k), and construction never fails; it evaluates SSIM on
\* levels 0..4 in order and returns the product of ssim[s]^weight[s]; as soon
\* as a scale's SSIM is <= 0 it returns 0.0 without evaluating a later scale.
C14_PyramidThenProduct ==
    /\ [](C14_Pyramids)
    /\ [][C14_EvalStep]_vars

\* C14 witness: an input of odd width and height 33 went through all five
\* scales and the product was returned.
C14_Witness ==
    /\ Returned("msssim_y") /\ MsValidCall
    /\ width = 33 /\ height = 33
    /\ result.r.threw = "none" /\ result.r.value.kind = "product"
    /\ ssim_calls = NumScales

\* A later scale than the first short-circuited.
C14_LateShortCircuit ==
    /\ Returned("msssim_y") /\ MsValidCall
    /\ result.r.threw = "none" /\ result.r.value.kind = "zero"
    /\ ssim_calls > 1

\* C15: in every apply_gaussian_filter call ssim_y makes on a pyramid level
\* during msssim_y, for inputs of at least 32x32, every sampled column index
\* lies in [0,width) and every sampled row index in [0,height): no read falls
\* outside the plane or the intermediate buffer.
C15_FilterReadsInRange ==
    MsValidCall =>
        \A s \in 1..ssim_calls :
            /\ SampledIndices(widths[s], KernelSize) \subseteq 0..(widths[s] - 1)
            /\ SampledIndices(heights[s], KernelSize) \subseteq 0..(heights[s] - 1)

====
